---------------------------- MODULE Spec2Model ----------------------------
(***************************************************************************)
(* A model of the two notebooks of messiest/gaussian-processes:            *)
(*   notebooks/gpytorch/gpytorch-LOVE.ipynb          (exact GP + LOVE)     *)
(*   notebooks/gpytorch/deep-kernel-learning.ipynb   (DKL on CIFAR)        *)
(* The notebooks are glue code: cells run top to bottom, each cell a few   *)
(* statements over library objects.  The model keeps what the notebook     *)
(* code itself decides: the data preparation arithmetic, the order and     *)
(* number of the calls each loop makes, the train/eval mode toggles, the   *)
(* global names each cell binds or reads, and the checkpoint step.         *)
(***************************************************************************)
EXTENDS Integers, Sequences, FiniteSets, TLC

VARIABLES
    nb,          \* which notebook run this behaviour is: "data", "love", "dkl"
    pc,          \* position in the notebook (next cell / statement to run)
    err,         \* the exception that ended the run, "none" while running
    \* ---- LOVE notebook, data cells (lines 98-117)
    data, X, y, train_n, train_x, train_y, test_x, test_y,
    rows,        \* the row indices each of the four slices selected
    \* ---- model, likelihood and optimizer objects (both notebooks)
    model_mode,  \* "train" or "eval": model.training
    lik_mode,    \* "train" or "eval": likelihood.training
    cache,       \* the model's predictive caches (mean cache, LOVE covar cache)
    history,     \* the mode switches and predictions made so far, in order
    params,      \* parameter state: the number of optimizer steps applied
    settings,    \* gpytorch settings in force: fast_pred_var, max_root_decomposition_size
    timed,       \* the timed measurements taken so far, in order
    calls,       \* how often each statement of a training loop has run
    iter_ops,    \* the statements run so far in the current loop iteration
    output,      \* params the last forward pass was computed from (-1: none)
    loss,        \* params the last loss was computed from (-1: none)
    grad,        \* accumulated gradients: the params of each loss backpropagated
    \* ---- LOVE notebook, training and benchmark cells
    n,           \* the argument of train(n)
    iters,       \* iterations of the loop begun (the loop variable i is iters - 1)
    script,      \* "cells": the cells in notebook order; "free": any order
    ops_left,    \* operations a "free" run may still make
    exact_covar, fast_covar, fast_covar_cache, mae,
    \* ---- DKL notebook
    dataset,     \* the value of the global `dataset`
    defined,     \* the global names bound so far
    num_classes,
    n_batches,   \* len(train_loader)
    n_test_batches, \* len(test_loader)
    epoch, batch_idx,
    sched_steps, \* scheduler.step() calls
    test_seen,   \* test batches evaluated in the current test() call
    tests_done,  \* test() calls that returned
    epochs_trained, \* train(epoch) calls that returned
    ckpt_file,   \* content of 'dkl_cifar_checkpoint.dat'
    ckpt_writes  \* torch.save calls made

ctlVars == <<nb, pc, err>>
dataVars == <<data, X, y, train_n, train_x, train_y, test_x, test_y, rows>>
objRest == <<model_mode, lik_mode, cache, history, settings, timed>>
modeVars == <<objRest, params>>
trainVars == <<calls, iter_ops, output, loss, grad>>
loveVars == <<n, iters, script, ops_left, exact_covar, fast_covar, fast_covar_cache, mae>>
dklVars == <<dataset, defined, num_classes, n_batches, n_test_batches, epoch, batch_idx,
             sched_steps, test_seen, tests_done, epochs_trained, ckpt_file, ckpt_writes>>
vars == <<ctlVars, dataVars, modeVars, trainVars, loveVars, dklVars>>

-----------------------------------------------------------------------------
(* Bounds of the model.                                                    *)
MaxRows == 5          \* datasets of 0..MaxRows rows
MaxIters == 3         \* train(n) is called with n in 0..MaxIters
MaxOps == 6           \* operations of a run that takes them in any order
MaxTrainBatches == 51 \* len(train_loader) is in 0..MaxTrainBatches
MaxTestBatches == 2   \* len(test_loader) is in 0..MaxTestBatches

(* Values the two feature columns are drawn from (column 1, column 2).     *)
FeatureVals == << {0, 1, 4}, {-2, 3} >>

Min(a, b) == IF a <= b THEN a ELSE b

-----------------------------------------------------------------------------
(* Tensor values.  Raw data are integers; the result of the division in    *)
(* the normalisation is a fraction num/den with den > 0, or NaN (0/0).     *)
Frac(nu, de) == [nan |-> FALSE, num |-> nu, den |-> de]
NaN == [nan |-> TRUE, num |-> 0, den |-> 1]

\* a / b for an integer-valued tensor entry a >= 0 and column maximum b >= 0;
\* float division by zero gives NaN for 0/0 (a > 0 with b = 0 cannot happen:
\* b is the maximum of the column a is in).
TensorDiv(a, b) == IF b = 0 THEN NaN ELSE Frac(a, b)


\* 2 * q - 1
TwiceMinusOne(q) == IF q.nan THEN NaN ELSE Frac(2 * q.num - q.den, q.den)

\* q1 <= q2 on fractions (false when either is NaN, as float comparison is)
FracLeq(q1, q2) == /\ ~q1.nan /\ ~q2.nan
                   /\ q1.num * q2.den <= q2.num * q1.den
FracEq(q1, q2) == FracLeq(q1, q2) /\ FracLeq(q2, q1)

\* column j of a matrix given as a sequence of rows
Column(M, j) == [r \in 1..Len(M) |-> M[r][j]]

\* X.min(0)[0] and X.max(0)[0] for one integer column with at least one row
ColMin(c) == CHOOSE m \in {c[r] : r \in 1..Len(c)} : \A r \in 1..Len(c) : m <= c[r]
ColMax(c) == CHOOSE m \in {c[r] : r \in 1..Len(c)} : \A r \in 1..Len(c) : c[r] <= m

\* data[:, :-1] : every column but the last
DropLastColumn(M) == [r \in 1..Len(M) |-> SubSeq(M[r], 1, Len(M[r]) - 1)]
\* data[:, -1] : the last column
LastColumn(M) == [r \in 1..Len(M) |-> M[r][Len(M[r])]]

\* X = X - X.min(0)[0]
SubtractColMin(M) ==
    [r \in 1..Len(M) |-> [j \in 1..Len(M[r]) |-> M[r][j] - ColMin(Column(M, j))]]

\* X = 2 * (X / X.max(0)[0]) - 1
ScaleByColMax(M) ==
    [r \in 1..Len(M) |->
        [j \in 1..Len(M[r]) |-> TwiceMinusOne(TensorDiv(M[r][j], ColMax(Column(M, j))))]]

Normalize(M) == ScaleByColMax(SubtractColMin(M))

-----------------------------------------------------------------------------
(* The split (lines 111-117).                                              *)

\* int(math.floor(0.4 * len(X))).  The double 0.4 is 2/5 + 2.2e-17, and
\* 0.4 * L is either an integer exactly (L a multiple of 5: the product
\* rounds to it) or at least 0.2 away from one, so the float floor is the
\* exact floor of 2L/5 for every L below 2^50.
TrainN(L) == (4 * L) \div 10

\* the 0-based row indices of s[:stop] and of s[start:], 0 <= start, stop
SliceTo(len, stop) == [k \in 1..Min(stop, len) |-> k - 1]
\* (mutation of SliceFrom: the slice starts one row late)
SliceFromSkipsOne(len, start) ==
    [k \in 1..(len - Min(start + 1, len)) |-> Min(start + 1, len) + k - 1]
SliceFrom(len, start) == [k \in 1..(len - Min(start, len)) |-> Min(start, len) + k - 1]

\* s[idx] for a sequence idx of 0-based indices
Take(s, idx) == [k \in 1..Len(idx) |-> s[idx[k] + 1]]

-----------------------------------------------------------------------------
(* The model, likelihood and optimizer objects.  Their classes belong to   *)
(* torch and gpytorch; what the notebooks rely on is the train/eval flag   *)
(* of a module and the predictive caches of an exact GP, which the         *)
(* notebook describes in its text (LOVE notebook, lines 497-498): a        *)
(* prediction in evaluation mode computes the caches it needs and keeps    *)
(* them, later predictions use them, and putting the model back in         *)
(* training mode drops them.                                               *)

NoCache == [mean_built |-> FALSE, mean_params |-> 0,
            covar_built |-> FALSE, covar_params |-> 0, covar_size |-> 0, covar_probe |-> 0]
NoResult == [kind |-> "none", params |-> 0, size |-> 0, probe |-> 0]

\* Lanczos start vectors a build of the LOVE cache may draw
Probes == {1, 2}

ModeEvent(op) ==
    [op |-> op, fast |-> FALSE, mean_built |-> FALSE, covar_built |-> FALSE,
     result |-> NoResult]
PredictEvent(fast, mb, cb, res) ==
    [op |-> "predict", fast |-> fast, mean_built |-> mb, covar_built |-> cb, result |-> res]

\* the objects' state an operation works on
H == [model_mode |-> model_mode, lik_mode |-> lik_mode, cache |-> cache, history |-> history,
      params |-> params, settings |-> settings, timed |-> timed]
SetH(h) == /\ model_mode' = h.model_mode /\ lik_mode' = h.lik_mode
           /\ cache' = h.cache /\ history' = h.history
           /\ params' = h.params /\ settings' = h.settings /\ timed' = h.timed

\* (mutation of model_train: the caches survive the switch to training mode)
model_train_keeps_cache(h) ==
    [h EXCEPT !.model_mode = "train", !.history = Append(@, ModeEvent("model.train"))]
\* model.train()
model_train(h) ==
    [h EXCEPT !.model_mode = "train", !.cache = NoCache,
              !.history = Append(@, ModeEvent("model.train"))]
\* model.eval()
model_eval(h) ==
    [h EXCEPT !.model_mode = "eval", !.history = Append(@, ModeEvent("model.eval"))]
\* likelihood.train(), likelihood.eval()
likelihood_train(h) == [h EXCEPT !.lik_mode = "train"]
likelihood_eval(h) == [h EXCEPT !.lik_mode = "eval"]

\* likelihood(model(test_x)).covariance_matrix with the model at parameters p,
\* with gpytorch.fast_pred_var() on or off and max_root_decomposition_size
\* `size`; a LOVE cache built by this call starts Lanczos from `probe`.
Predict(h, p, fast, size, probe) ==
    IF h.model_mode # "eval"
      THEN \* training mode: the call is no posterior prediction, no cache is touched
           [h EXCEPT !.history =
               Append(@, PredictEvent(fast, FALSE, FALSE,
                                      [kind |-> "prior", params |-> p, size |-> 0, probe |-> 0]))]
      ELSE LET mb == ~h.cache.mean_built
               cb == fast /\ ~h.cache.covar_built
               c1 == IF mb THEN [h.cache EXCEPT !.mean_built = TRUE, !.mean_params = p]
                           ELSE h.cache
               c2 == IF cb THEN [c1 EXCEPT !.covar_built = TRUE, !.covar_params = p,
                                           !.covar_size = size, !.covar_probe = probe]
                           ELSE c1
               res == IF fast
                        THEN [kind |-> "love", params |-> c2.covar_params,
                              size |-> c2.covar_size, probe |-> c2.covar_probe]
                        ELSE [kind |-> "exact", params |-> p, size |-> 0, probe |-> 0]
           IN [h EXCEPT !.cache = c2,
                        !.history = Append(@, PredictEvent(fast, mb, cb, res))]

Last(sq) == sq[Len(sq)]

\* ---- gpytorch settings.  fast_pred_var is off unless a block turns it on;
\* max_root = 0 stands for the library's default size (the notebook sets none).
DefaultSettings == [fast_pred_var |-> FALSE, max_root |-> 0]

\* ---- the training loops' statements
LoopOps == {"zero_grad", "forward", "loss", "backward", "print", "step"}
NoCalls == [op \in LoopOps |-> 0]
Stmt(op) == /\ calls' = [calls EXCEPT ![op] = @ + 1]
            /\ iter_ops' = Append(iter_ops, op)

\* (mutation of ZeroGrad: the gradients are not cleared)
ZeroGradKeeps(g) == g
\* optimizer.zero_grad()
ZeroGrad(g) == <<>>
\* loss.backward(): the gradient of the loss is added to the accumulated ones
Backward(g, l) == Append(g, l)

-----------------------------------------------------------------------------
(* Values of the variables a run does not use.                             *)
IdleData ==
    /\ data = <<>> /\ X = <<>> /\ y = <<>> /\ train_n = 0
    /\ train_x = <<>> /\ train_y = <<>> /\ test_x = <<>> /\ test_y = <<>>
    /\ rows = [train_x |-> <<>>, train_y |-> <<>>, test_x |-> <<>>, test_y |-> <<>>]
\* modules are constructed in training mode, with no cache and nothing run
FreshObjects ==
    /\ model_mode = "train" /\ lik_mode = "train" /\ cache = NoCache /\ history = <<>>
    /\ settings = DefaultSettings /\ timed = <<>>
    /\ params = 0 /\ calls = NoCalls /\ iter_ops = <<>>
    /\ output = -1 /\ loss = -1 /\ grad = <<>>
IdleLove ==
    /\ n = 0 /\ iters = 0 /\ script = "cells" /\ ops_left = 0
    /\ exact_covar = NoResult /\ fast_covar = NoResult /\ fast_covar_cache = NoResult
    /\ mae = <<NoResult, NoResult>>
IdleDkl ==
    /\ dataset = "" /\ defined = {} /\ num_classes = 0
    /\ n_batches = 0 /\ n_test_batches = 0 /\ epoch = 0 /\ batch_idx = -1
    /\ sched_steps = 0 /\ test_seen = 0 /\ tests_done = 0 /\ epochs_trained = 0
    /\ ckpt_file = "absent" /\ ckpt_writes = 0

-----------------------------------------------------------------------------
(* Data cells of the LOVE notebook as a run of their own: the input is the *)
(* loaded matrix, one row per sample, the last column the target.          *)

FeatRows == FeatureVals[1] \X FeatureVals[2]
\* row i (1-based) of a dataset: two features and a target that names the row
DataOf(f, L) == [i \in 1..L |-> <<f[i][1], f[i][2], 100 + i>>]

InitData ==
    /\ nb = "data" /\ pc = "normalize" /\ err = "none"
    /\ \E L \in 0..MaxRows : \E f \in [1..L -> FeatRows] : data = DataOf(f, L)
    /\ X = <<>> /\ y = <<>> /\ train_n = 0
    /\ train_x = <<>> /\ train_y = <<>> /\ test_x = <<>> /\ test_y = <<>>
    /\ rows = [train_x |-> <<>>, train_y |-> <<>>, test_x |-> <<>>, test_y |-> <<>>]
    /\ FreshObjects /\ IdleLove /\ IdleDkl

\* cell 4 (lines 98-102).  A reduction over zero rows has no value: torch
\* either raises or (builds that allow it) returns an empty result, so the
\* empty dataset takes either outcome.
NormalizeCell ==
    /\ nb = "data" /\ pc = "normalize"
    /\ IF Len(data) = 0
         THEN \E raises \in BOOLEAN :
                IF raises
                  THEN /\ pc' = "raised" /\ err' = "RuntimeError"
                       /\ UNCHANGED <<X, y>>
                  ELSE /\ pc' = "split" /\ X' = <<>> /\ y' = <<>>
                       /\ UNCHANGED err
         ELSE /\ X' = Normalize(DropLastColumn(data))
              /\ y' = LastColumn(data)
              /\ pc' = "split"
              /\ UNCHANGED err
    /\ UNCHANGED <<nb, data, train_n, train_x, train_y, test_x, test_y, rows>>
    /\ UNCHANGED <<modeVars, trainVars, loveVars, dklVars>>

\* cell 5 (lines 111-117)
SplitCell ==
    /\ nb = "data" /\ pc = "split"
    /\ LET tn == TrainN(Len(X))
           r  == [train_x |-> SliceTo(Len(X), tn),   train_y |-> SliceTo(Len(y), tn),
                  test_x  |-> SliceFrom(Len(X), tn), test_y  |-> SliceFrom(Len(y), tn)]
       IN /\ train_n' = tn
          /\ rows' = r
          /\ train_x' = Take(X, r.train_x)
          /\ train_y' = Take(y, r.train_y)
          /\ test_x' = Take(X, r.test_x)
          /\ test_y' = Take(y, r.test_y)
    /\ pc' = "prepared"
    /\ UNCHANGED <<nb, err, data, X, y>>
    /\ UNCHANGED <<modeVars, trainVars, loveVars, dklVars>>

NextData == NormalizeCell \/ SplitCell

SpecData == InitData /\ [][NextData]_vars

-----------------------------------------------------------------------------
(* The LOVE notebook from the training cell on.  A run with script =       *)
(* "cells" executes the cells in notebook order; a run with script =       *)
(* "free" trains the same way and then takes the harness operations        *)
(* (mode switches, cleanup(), the prediction blocks) in any order.         *)

\* max_root_decomposition_size(25), lines 460 and 507
RootDecompositionSize == 25

InitLove ==
    /\ nb = "love" /\ pc = "setup" /\ err = "none"
    /\ IdleData /\ FreshObjects /\ IdleDkl
    /\ n \in 0..MaxIters /\ iters = 0
    /\ script \in {"cells", "free"} /\ ops_left = MaxOps
    /\ exact_covar = NoResult /\ fast_covar = NoResult /\ fast_covar_cache = NoResult
    /\ mae = <<NoResult, NoResult>>

\* lines 178-179: model.train(); likelihood.train()
TrainingMode(h) == likelihood_train(model_train(h))
\* (mutation of EvalMode: the likelihood is left as it was)
EvalModelOnly(h) == model_eval(h)
\* lines 367-368 and 457-458: model.eval(); likelihood.eval().  (The
\* likelihood is also a submodule of the ExactGP model, so model.eval() has
\* switched it already when likelihood.eval() runs; the pair ends in the same
\* state either way.)
EvalMode(h) == likelihood_eval(model_eval(h))

\* (mutation of cleanup: it only collects garbage)
cleanup_gc_only(h) == h
\* (mutation of cleanup: the model is also put back to its initial parameters)
cleanup_reinit(h) == likelihood_train(model_train([h EXCEPT !.params = 0]))
\* lines 419-423: gc.collect(); empty_cache(); model.train(); likelihood.train()
cleanup(h) == likelihood_train(model_train(h))

\* `with gpytorch.fast_pred_var(), gpytorch.settings.max_root_decomposition_size(25):`
\* the settings in force inside the block, and those in force once it is left
\* (each context manager puts back the value it found)
EnterContexts(st) == [st EXCEPT !.fast_pred_var = TRUE, !.max_root = RootDecompositionSize]
ExitContexts(inside, before) == before

\* start = time.time(); preds = likelihood(model(test_x)); ...; time.time() - start:
\* the prediction under the settings in force, and its timing recorded
TimedPredict(h, p, probe) ==
    LET h1 == Predict(h, p, h.settings.fast_pred_var, h.settings.max_root, probe)
    IN [h1 EXCEPT !.timed = Append(@, [fast |-> h.settings.fast_pred_var,
                                        size |-> h.settings.max_root,
                                        model_mode |-> h.model_mode,
                                        lik_mode |-> h.lik_mode,
                                        result |-> Last(h1.history).result])]

\* lines 370-374: the exact prediction block (under torch.no_grad() alone)
ExactBlock(h, p) == TimedPredict(h, p, 0)
\* (mutation of LoveBlock: the settings are switched on and never put back)
LoveBlockLeaks(h, p, probe) ==
    TimedPredict([h EXCEPT !.settings = EnterContexts(h.settings)], p, probe)
\* lines 460-464 and 507-511: the prediction block under fast_pred_var() and
\* max_root_decomposition_size(25)
LoveBlock(h, p, probe) ==
    LET inside == [h EXCEPT !.settings = EnterContexts(h.settings)]
        after == TimedPredict(inside, p, probe)
    IN [after EXCEPT !.settings = ExitContexts(after.settings, h.settings)]

\* cell 10, lines 367-374
ExactPredictionCell(h, p) == ExactBlock(EvalMode(h), p)
\* cell 14, lines 457-464
LovePredictionCell(h, p, probe) == LoveBlock(EvalMode(h), p, probe)
\* (mutation of CachedPredictionCell: cleanup() and eval() are run first)
CachedPredictionCellAfterCleanup(h, p, probe) == LoveBlock(EvalMode(cleanup(h)), p, probe)
\* (mutation of CachedPredictionCell: the fast_pred_var() context is missing)
CachedPredictionCellExact(h, p, probe) == TimedPredict(h, p, probe)
\* cell 16, lines 507-511
CachedPredictionCell(h, p, probe) == LoveBlock(h, p, probe)

\* (mutation of TrainLoopHasNext: the last iteration is dropped)
TrainLoopStopsEarly(done, total) == done + 1 < total
\* `for i in tnrange(n)`: another iteration after `done` of `total`
TrainLoopHasNext(done, total) == done < total

LoveUnchangedElse == UNCHANGED <<nb, err, dataVars, dklVars>>

\* cell 8, lines 178-199: training mode, optimizer, mll, def train
LoveSetupCell ==
    /\ nb = "love" /\ pc = "setup"
    /\ SetH(TrainingMode(H))
    /\ pc' = "call_train"
    /\ UNCHANGED <<trainVars, loveVars>> /\ LoveUnchangedElse

\* cell 9, line 335 and line 190: train(n) is entered, pbar = tnrange(n)
LoveTrainCall ==
    /\ nb = "love" /\ pc = "call_train"
    /\ pc' = "loop"
    /\ UNCHANGED <<modeVars, trainVars, loveVars>> /\ LoveUnchangedElse

\* line 191: for i in pbar
LoveLoopNext ==
    /\ nb = "love" /\ pc = "loop"
    /\ IF TrainLoopHasNext(iters, n)
         THEN /\ iters' = iters + 1 /\ iter_ops' = <<>> /\ pc' = "zero_grad"
         ELSE /\ pc' = "trained" /\ UNCHANGED <<iters, iter_ops>>
    /\ UNCHANGED <<modeVars, params, calls, output, loss, grad>>
    /\ UNCHANGED <<n, script, ops_left, exact_covar, fast_covar, fast_covar_cache, mae>>
    /\ LoveUnchangedElse

\* line 192: optimizer.zero_grad()
LoveZeroGrad ==
    /\ nb = "love" /\ pc = "zero_grad"
    /\ Stmt("zero_grad") /\ grad' = ZeroGrad(grad)
    /\ pc' = "forward"
    /\ UNCHANGED <<modeVars, params, output, loss, loveVars>> /\ LoveUnchangedElse

\* line 193: output = model(train_x)
LoveForward ==
    /\ nb = "love" /\ pc = "forward"
    /\ Stmt("forward") /\ output' = params
    /\ pc' = "loss"
    /\ UNCHANGED <<modeVars, params, loss, grad, loveVars>> /\ LoveUnchangedElse

\* line 194: loss = -1 * mll(output, train_y)
LoveLoss ==
    /\ nb = "love" /\ pc = "loss"
    /\ Stmt("loss") /\ loss' = output
    /\ pc' = "backward"
    /\ UNCHANGED <<modeVars, params, output, grad, loveVars>> /\ LoveUnchangedElse

\* line 195: loss.backward()
LoveBackward ==
    /\ nb = "love" /\ pc = "backward"
    /\ Stmt("backward") /\ grad' = Backward(grad, loss)
    /\ pc' = "print"
    /\ UNCHANGED <<modeVars, params, output, loss, loveVars>> /\ LoveUnchangedElse

\* line 197: print(f"{i+1:3d}/{n:3d} | Loss: {loss.item(): .3f}")
LovePrint ==
    /\ nb = "love" /\ pc = "print"
    /\ Stmt("print")
    /\ pc' = "step"
    /\ UNCHANGED <<modeVars, params, output, loss, grad, loveVars>> /\ LoveUnchangedElse

\* line 199: optimizer.step()
LoveOptStep ==
    /\ nb = "love" /\ pc = "step"
    /\ Stmt("step") /\ params' = params + 1
    /\ pc' = "loop"
    /\ UNCHANGED <<objRest, output, loss, grad, loveVars>> /\ LoveUnchangedElse

\* train(n) has returned: the run goes on with the cells or with any operations
LoveTrainReturn ==
    /\ nb = "love" /\ pc = "trained"
    /\ pc' = IF script = "cells" THEN "exact" ELSE "free"
    /\ UNCHANGED <<modeVars, trainVars, loveVars>> /\ LoveUnchangedElse

\* cell 10, lines 367-374
LoveExactCell ==
    /\ nb = "love" /\ pc = "exact"
    /\ LET h == ExactPredictionCell(H, params)
       IN SetH(h) /\ exact_covar' = Last(h.history).result
    /\ pc' = "cleanup"
    /\ UNCHANGED <<trainVars, n, iters, script, ops_left, fast_covar, fast_covar_cache, mae>>
    /\ LoveUnchangedElse

\* cell 13, line 432: cleanup()
LoveCleanupCell ==
    /\ nb = "love" /\ pc = "cleanup"
    /\ SetH(cleanup(H))
    /\ pc' = "love"
    /\ UNCHANGED <<trainVars, loveVars>> /\ LoveUnchangedElse

\* cell 14, lines 457-464
LoveFastCell ==
    /\ nb = "love" /\ pc = "love"
    /\ \E probe \in Probes :
         LET h == LovePredictionCell(H, params, probe)
         IN SetH(h) /\ fast_covar' = Last(h.history).result
    /\ pc' = "love_cached"
    /\ UNCHANGED <<trainVars, n, iters, script, ops_left, exact_covar, fast_covar_cache, mae>>
    /\ LoveUnchangedElse

\* cell 16, lines 507-511
LoveCachedCell ==
    /\ nb = "love" /\ pc = "love_cached"
    /\ \E probe \in Probes :
         LET h == CachedPredictionCell(H, params, probe)
         IN SetH(h) /\ fast_covar_cache' = Last(h.history).result
    /\ pc' = "mae"
    /\ UNCHANGED <<trainVars, n, iters, script, ops_left, exact_covar, fast_covar, mae>>
    /\ LoveUnchangedElse

\* cell 18, line 556: mae = (exact_covar - fast_covar).abs().mean()
LoveMaeCell ==
    /\ nb = "love" /\ pc = "mae"
    /\ mae' = <<exact_covar, fast_covar>>
    /\ pc' = "done"
    /\ UNCHANGED <<modeVars, trainVars>>
    /\ UNCHANGED <<n, iters, script, ops_left, exact_covar, fast_covar, fast_covar_cache>>
    /\ LoveUnchangedElse

\* ---- the same operations in any order (script = "free")
FreeStep == /\ nb = "love" /\ pc = "free" /\ ops_left > 0
            /\ ops_left' = ops_left - 1
            /\ UNCHANGED <<pc, trainVars, n, iters, script, mae>> /\ LoveUnchangedElse

FreeTrainingMode ==
    /\ FreeStep /\ SetH(TrainingMode(H))
    /\ UNCHANGED <<exact_covar, fast_covar, fast_covar_cache>>
FreeEvalMode ==
    /\ FreeStep /\ SetH(EvalMode(H))
    /\ UNCHANGED <<exact_covar, fast_covar, fast_covar_cache>>
FreeCleanup ==
    /\ FreeStep /\ SetH(cleanup(H))
    /\ UNCHANGED <<exact_covar, fast_covar, fast_covar_cache>>
\* lines 370-374 on their own; the block runs in whatever mode the model is in
FreeExactBlock ==
    /\ FreeStep
    /\ LET h == ExactBlock(H, params)
       IN SetH(h) /\ exact_covar' = Last(h.history).result
    /\ UNCHANGED <<fast_covar, fast_covar_cache>>
\* lines 507-511 on their own: the block binds fast_covar_cache and nothing else
FreeLoveBlock ==
    /\ FreeStep
    /\ \E probe \in Probes :
         LET h == LoveBlock(H, params, probe)
         IN SetH(h) /\ fast_covar_cache' = Last(h.history).result
    /\ UNCHANGED <<exact_covar, fast_covar>>

NextLove ==
    \/ LoveSetupCell \/ LoveTrainCall \/ LoveLoopNext
    \/ LoveZeroGrad \/ LoveForward \/ LoveLoss \/ LoveBackward \/ LovePrint \/ LoveOptStep
    \/ LoveTrainReturn
    \/ LoveExactCell \/ LoveCleanupCell \/ LoveFastCell \/ LoveCachedCell \/ LoveMaeCell
    \/ FreeTrainingMode \/ FreeEvalMode \/ FreeCleanup \/ FreeExactBlock \/ FreeLoveBlock

-----------------------------------------------------------------------------
(* The DKL notebook.  Its cells bind global names and later cells read     *)
(* them; reading a name no cell has bound raises NameError.                *)

\* n_epochs = 100, line 239
n_epochs == 100
\* (batch_idx+1) % 50 == 0, line 278
ReportEvery == 50

\* values of `dataset` a user may set in the cell of line 72
DatasetValues == {"cifar10", "cifar100", "CIFAR10", "mnist", ""}

\* names bound by a branch of the selection cell that builds the loaders
LoaderNames == {"d_func", "train_set", "test_set", "train_loader", "test_loader", "num_classes"}

Bound(name, names) == name \in names

\* line 272: enumerate(pbar) yields another batch after `done` of `total`
BatchLoopHasNext(done, total) == done < total

\* line 278: the loss is printed for this batch
ReportDue(b) == (b + 1) % ReportEvery = 0

\* line 337 saves the global `state_dict`, which line 332 does not bind: when
\* the name is bound, its value was made outside the epoch loop and is the
\* parameters of no epoch
StateDictGlobal == -1
\* lines 335-341: the dict torch.save receives
Checkpoint(sd, lsd) == [model |-> sd, likelihood |-> lsd]
NoCheckpoint == "absent"
\* the file after a write that did not finish
CorruptCheckpoint == "corrupt"

InitDkl ==
    /\ nb = "dkl" /\ pc = "imports" /\ err = "none"
    /\ IdleData /\ FreshObjects /\ IdleLove
    /\ dataset \in DatasetValues
    /\ defined = {}
    /\ num_classes = 0
    /\ n_batches \in 0..MaxTrainBatches
    /\ n_test_batches \in 0..MaxTestBatches
    /\ epoch = 0 /\ batch_idx = -1
    /\ sched_steps = 0 /\ test_seen = 0 /\ tests_done = 0 /\ epochs_trained = 0
    /\ ckpt_file = NoCheckpoint /\ ckpt_writes = 0

DklUnchangedElse == UNCHANGED <<nb, dataVars, loveVars, dataset, n_batches, n_test_batches>>
DklCounters == <<epoch, batch_idx, sched_steps, test_seen, tests_done, epochs_trained,
                 ckpt_file, ckpt_writes>>

\* (mutation of Raise: the exception is noted and the epoch loop goes on)
RaiseAndContinue(e) == pc' = "epoch_next" /\ err' = e
\* an exception no statement catches: the cell stops where it is
Raise(e) == pc' = "raised" /\ err' = e

\* the calls of the epoch loop into torch and gpytorch, by the position of the
\* run: scheduler.step() (line 326); in train (line 329) the two mode switches
\* (267, 268), mll and tqdm (269-271), the fetch of a batch (272) and the
\* statements of the body (274-280); in test (line 330) the two mode switches
\* (297, 298), tqdm (301), and a batch or the end of the loop (302-308)
LibraryCalls ==
    [scheduler |-> "scheduler.step",
     train_enter |-> "train", likelihood_train |-> "train", train_setup |-> "train",
     batch_next |-> "train", zero_grad |-> "train",
     forward |-> "train", loss |-> "train", backward |-> "train", report |-> "train",
     step |-> "train",
     test_enter |-> "test", likelihood_eval |-> "test", test_setup |-> "test",
     test_batch |-> "test"]
LibraryError(call) == "LibraryError: " \o call
NameError(name) == "NameError: " \o name
\* the names a statement of the epoch loop has read (a prefix of DklReads
\* below) when it makes its first call into the library: model.eval() of
\* test() comes after the names test and model, len(train_loader.dataset)
\* (line 269) after gpytorch, likelihood, model and train_loader, and the
\* fetch of a test batch (line 302) before any name of the body
ReadsBeforeCall ==
    [scheduler |-> 1,
     train_enter |-> 1, likelihood_train |-> 1, train_setup |-> 4,
     batch_next |-> 0, zero_grad |-> 1,
     forward |-> 1, loss |-> 0, backward |-> 0, report |-> 1,
     step |-> 1,
     test_enter |-> 2, likelihood_eval |-> 1, test_setup |-> 2,
     test_batch |-> 0]

\* ---- a cell is a sequence of statements; a statement reads names (in the
\* order given), may call into a library, and then binds names.  Reading an
\* unbound name raises NameError, a failing call raises its error; either
\* leaves the bindings of the statements before it in place.
Statement(reads, binds) == [reads |-> reads, binds |-> binds, call |-> "", raises |-> ""]
LibraryCall(reads, binds, call) ==
    [reads |-> reads, binds |-> binds, call |-> call, raises |-> LibraryError(call)]
FirstUnbound(reads, names) ==
    LET missing == {i \in 1..Len(reads) : ~Bound(reads[i], names)}
    IN IF missing = {} THEN ""
       ELSE reads[CHOOSE i \in missing : \A j \in missing : i <= j]

\* the calls of a cell that can raise, and "" for a run in which none does
Fallible(stmts) == {stmts[i].call : i \in DOMAIN stmts} \cup {""}
\* names bound by the statements of a cell that runs to its end
BoundBy(stmts) == UNION {stmts[i].binds : i \in DOMAIN stmts}

\* statements run in order; the call `fails` raises ("" when none does)
RECURSIVE RunFallible(_, _, _)
RunFallible(stmts, names, fails) ==
    IF stmts = <<>> THEN [names |-> names, raises |-> "none", failed |-> ""]
    ELSE LET st == Head(stmts)
             name == FirstUnbound(st.reads, names)
         IN IF name # ""
              THEN [names |-> names, raises |-> NameError(name), failed |-> ""]
            ELSE IF st.call # "" /\ st.call = fails
              THEN [names |-> names, raises |-> st.raises, failed |-> st.call]
              ELSE RunFallible(Tail(stmts), names \cup st.binds, fails)

\* lines 23-34
ImportsCell ==
    << LibraryCall(<<>>, {"math"}, "import math"),
       LibraryCall(<<>>, {"torch"}, "import torch"),
       LibraryCall(<<>>, {"nn"}, "from torch import nn"),
       LibraryCall(<<>>, {"F"}, "import torch.nn.functional as F"),
       LibraryCall(<<>>, {"datasets"}, "from torchvision import datasets"),
       LibraryCall(<<>>, {"transforms"}, "from torchvision import transforms"),
       LibraryCall(<<>>, {"SGD", "Adam"}, "from torch.optim import SGD, Adam"),
       LibraryCall(<<>>, {"MultiStepLR"}, "from torch.optim.lr_scheduler import MultiStepLR"),
       LibraryCall(<<>>, {"gpytorch"}, "import gpytorch"),
       LibraryCall(<<>>, {"tqdm"}, "from tqdm import tqdm_notebook as tqdm") >>
\* lines 50-56
TransformsCell ==
    << LibraryCall(<<"transforms">>, {"normalize"}, "transforms.Normalize"),
       LibraryCall(<<"transforms">>, {"crop"}, "transforms.RandomCrop"),
       LibraryCall(<<"transforms">>, {"flip"}, "transforms.RandomHorizontalFlip"),
       LibraryCall(<<"transforms">>, {}, "transforms.ToTensor"),
       Statement(<<"normalize">>, {"common_trans"}),
       LibraryCall(<<"transforms", "crop", "flip", "common_trans">>, {"train_compose"},
                   "transforms.Compose([crop, flip] + common_trans)"),
       LibraryCall(<<"transforms", "common_trans">>, {"test_compose"},
                   "transforms.Compose(common_trans)") >>
\* line 72: dataset = 'cifar10' (the value is the user's)
DatasetCell == << Statement(<<>>, {"dataset"}) >>
\* names bound by the cells before the selection cell (lines 23-72)
NamesBeforeSelect == BoundBy(ImportsCell) \cup BoundBy(TransformsCell) \cup BoundBy(DatasetCell)

\* lines 82-87 and 89-94: a branch of the selection cell, for the dataset
\* class `cls` of torchvision; the first construction downloads the data
LoaderStatements(cls) ==
    << LibraryCall(<<"datasets">>, {"d_func"}, "datasets." \o cls),
       LibraryCall(<<"datasets", "train_compose">>, {"train_set"},
                   "datasets." \o cls \o "(train=True, download=True)"),
       LibraryCall(<<"datasets", "test_compose">>, {"test_set"},
                   "datasets." \o cls \o "(train=False)"),
       LibraryCall(<<"torch", "train_set">>, {"train_loader"}, "DataLoader(train_set)"),
       LibraryCall(<<"torch", "test_set">>, {"test_loader"}, "DataLoader(test_set)"),
       Statement(<<>>, {"num_classes"}) >>

\* (mutation of SelectDataset: any other value falls back to CIFAR10)
SelectDatasetDefaults(d) ==
    IF d = "cifar100"
      THEN [raises |-> "none", statements |-> LoaderStatements("CIFAR100"), num_classes |-> 100]
      ELSE [raises |-> "none", statements |-> LoaderStatements("CIFAR10"), num_classes |-> 10]
\* lines 81-96: the branch the selection cell takes for dataset = d
SelectDataset(d) ==
    IF d = "cifar10"
      THEN [raises |-> "none", statements |-> LoaderStatements("CIFAR10"), num_classes |-> 10]
      ELSE IF d = "cifar100"
        THEN [raises |-> "none", statements |-> LoaderStatements("CIFAR100"),
              num_classes |-> 100]
        ELSE [raises |-> "RuntimeError: dataset must be either \"cifar10\" or \"cifar100\"",
              statements |-> <<>>, num_classes |-> 0]

\* lines 130-139: from densenet import DenseNet; class DenseNetFeatureExtractor(DenseNet)
DenseNetCell ==
    << LibraryCall(<<>>, {"DenseNet"}, "from densenet import DenseNet"),
       Statement(<<"DenseNet">>, {"DenseNetFeatureExtractor"}) >>
\* lines 148-149
FeatureExtractorCell ==
    << LibraryCall(<<"DenseNetFeatureExtractor", "num_classes">>, {"feature_extractor"},
                   "DenseNetFeatureExtractor"),
       Statement(<<"feature_extractor">>, {"num_features"}) >>
\* lines 165-191: class GaussianProcessLayer(gpytorch.models....)
GaussianProcessLayerCell ==
    << LibraryCall(<<"gpytorch">>, {"GaussianProcessLayer"},
                   "gpytorch.models.AdditiveGridInducingVariationalGP") >>
\* lines 200-213: class DKLModel(gpytorch.Module)
DKLModelCell == << LibraryCall(<<"gpytorch">>, {"DKLModel"}, "gpytorch.Module") >>
\* lines 222-223; the call DKLModel(...) runs the __init__ of both classes,
\* which read their globals then: super(DKLModel, self).__init__() (line 202),
\* GaussianProcessLayer(...) (line 204), super(GaussianProcessLayer, self)
\* .__init__(...) (line 167), the mean (line 174) and the kernel (lines 175-185)
ModelCell ==
    << LibraryCall(<<"DKLModel", "feature_extractor", "num_features", "DKLModel">>, {},
                   "gpytorch.Module.__init__"),
       LibraryCall(<<"GaussianProcessLayer", "GaussianProcessLayer">>, {},
                   "AdditiveGridInducingVariationalGP.__init__"),
       LibraryCall(<<"gpytorch">>, {}, "gpytorch.means.ConstantMean"),
       LibraryCall(<<"gpytorch", "math">>, {"model"}, "gpytorch.kernels.ScaleKernel"),
       LibraryCall(<<"gpytorch", "model", "num_classes">>, {"likelihood"},
                   "gpytorch.likelihoods.SoftmaxLikelihood") >>
\* lines 239-250
OptimizerCell ==
    << Statement(<<>>, {"n_epochs"}),
       Statement(<<>>, {"lr"}),
       LibraryCall(<<"SGD", "model">>, {}, "parameters"),
       LibraryCall(<<"lr", "model", "likelihood">>, {"optimizer"}, "SGD"),
       LibraryCall(<<"MultiStepLR", "optimizer", "n_epochs">>, {"scheduler"}, "MultiStepLR") >>
\* lines 266-280: def train
DefTrainCell == << Statement(<<>>, {"train"}) >>
\* lines 296-309: def test
DefTestCell == << Statement(<<>>, {"test"}) >>

\* lines 332-341, the checkpoint step: the statements with the library call
\* each makes
CheckpointStatements ==
    << [reads |-> <<"model">>, binds |-> {"stat_dict"}, call |-> "model.state_dict",
        raises |-> LibraryError("checkpoint")],
       [reads |-> <<"likelihood">>, binds |-> {"likelihood_state_dict"},
        call |-> "likelihood.state_dict", raises |-> LibraryError("checkpoint")],
       [reads |-> <<"torch", "state_dict", "likelihood_state_dict">>, binds |-> {},
        call |-> "torch.save", raises |-> LibraryError("checkpoint")] >>

\* every error a library call of the notebook can raise
CellErrors(stmts) == {stmts[i].raises : i \in DOMAIN stmts} \ {""}
LibraryErrors ==
    {LibraryError(LibraryCalls[p]) : p \in DOMAIN LibraryCalls}
    \cup CellErrors(ImportsCell) \cup CellErrors(TransformsCell)
    \cup CellErrors(LoaderStatements("CIFAR10")) \cup CellErrors(LoaderStatements("CIFAR100"))
    \cup CellErrors(DenseNetCell) \cup CellErrors(FeatureExtractorCell)
    \cup CellErrors(GaussianProcessLayerCell) \cup CellErrors(DKLModelCell)
    \cup CellErrors(ModelCell) \cup CellErrors(OptimizerCell)
    \cup CellErrors(CheckpointStatements)

\* a cell of the notebook run at position `at`; the run goes on with `next`
DklRunCell(cell, at, next) ==
    /\ nb = "dkl" /\ pc = at
    /\ \E fails \in Fallible(cell) :
         LET r == RunFallible(cell, defined, fails)
         IN /\ defined' = r.names
            /\ IF r.raises = "none" THEN pc' = next /\ UNCHANGED err
                                    ELSE Raise(r.raises)
    /\ UNCHANGED <<modeVars, trainVars, num_classes, DklCounters>> /\ DklUnchangedElse

\* lines 23-34
DklImportsCell == DklRunCell(ImportsCell, "imports", "transforms")
\* lines 50-56
DklTransformsCell == DklRunCell(TransformsCell, "transforms", "dataset")
\* line 72
DklDatasetCell == DklRunCell(DatasetCell, "dataset", "select")

\* lines 81-96: the tests of `dataset`, then the statements of the branch;
\* num_classes is assigned by the last of them
DklSelectCell ==
    /\ nb = "dkl" /\ pc = "select"
    /\ IF ~Bound("dataset", defined)
         THEN Raise(NameError("dataset")) /\ UNCHANGED <<defined, num_classes>>
         ELSE LET r == SelectDataset(dataset)
              IN IF r.raises # "none"
                   THEN Raise(r.raises) /\ UNCHANGED <<defined, num_classes>>
                   ELSE \E fails \in Fallible(r.statements) :
                          LET q == RunFallible(r.statements, defined, fails)
                          IN /\ defined' = q.names
                             /\ IF q.raises = "none"
                                  THEN /\ num_classes' = r.num_classes
                                       /\ pc' = "densenet" /\ UNCHANGED err
                                  ELSE /\ Raise(q.raises)
                                       /\ UNCHANGED num_classes
    /\ UNCHANGED <<modeVars, trainVars, DklCounters>> /\ DklUnchangedElse

\* lines 130-139
DklDenseNetCell == DklRunCell(DenseNetCell, "densenet", "feature_extractor")
\* lines 148-149
DklFeatureExtractorCell == DklRunCell(FeatureExtractorCell, "feature_extractor", "gp_layer")
\* lines 165-191
DklGaussianProcessLayerCell == DklRunCell(GaussianProcessLayerCell, "gp_layer", "dkl_model")
\* lines 200-213
DklDKLModelCell == DklRunCell(DKLModelCell, "dkl_model", "model")
\* lines 222-223
DklModelCell == DklRunCell(ModelCell, "model", "optimizer")
\* lines 239-250
DklOptimizerCell == DklRunCell(OptimizerCell, "optimizer", "def_train")
\* lines 266-280
DklDefTrainCell == DklRunCell(DefTrainCell, "def_train", "def_test")
\* lines 296-309
DklDefTestCell == DklRunCell(DefTestCell, "def_test", "epoch_next")

\* ---- the epoch loop (lines 325-341) and the functions it calls.  Each
\* statement reads its global names first; the names are those of the
\* statement and of the notebook's methods it runs (forward of the feature
\* extractor, line 134, of DKLModel, line 210, of the GP layer, line 191).
DklReads ==
    [scheduler |-> <<"scheduler">>,
     train_enter |-> <<"gpytorch", "train", "epoch", "model">>,
     likelihood_train |-> <<"likelihood">>,
     train_setup |-> <<"gpytorch", "likelihood", "model", "train_loader", "tqdm">>,
     batch_next |-> <<>>,
     zero_grad |-> <<"optimizer">>,
     forward |-> <<"model", "F", "gpytorch">>,
     loss |-> <<>>,
     backward |-> <<>>,
     report |-> <<"train_loader">>,
     step |-> <<"optimizer">>,
     test_enter |-> <<"test", "model">>,
     likelihood_eval |-> <<"likelihood">>,
     test_setup |-> <<"tqdm", "test_loader">>,
     test_batch |-> <<"torch", "likelihood", "model", "F", "gpytorch">>]

\* the exception leaves the loop and the cell: nothing else changes
DklRaises(e) ==
    /\ Raise(e)
    /\ UNCHANGED <<modeVars, trainVars, defined, num_classes, DklCounters>>
    /\ DklUnchangedElse

\* a statement of the loop at position `at`: NameError for the first unbound
\* name it reads, its effect otherwise
DklStatement(at, reads, effect) ==
    /\ nb = "dkl" /\ pc = at
    /\ IF FirstUnbound(reads, defined) # ""
         THEN DklRaises(NameError(FirstUnbound(reads, defined)))
         ELSE effect

\* line 325: for epoch in range(1, n_epochs + 1); range(...) is built once,
\* before the first epoch, and each iteration binds the global `epoch`
DklEpochNext ==
    DklStatement("epoch_next", IF epoch = 0 THEN <<"n_epochs">> ELSE <<>>,
        /\ IF epoch < n_epochs
             THEN /\ epoch' = epoch + 1 /\ pc' = "scheduler"
                  /\ defined' = defined \cup {"epoch"}
             ELSE pc' = "done" /\ UNCHANGED <<epoch, defined>>
        /\ UNCHANGED <<err, modeVars, trainVars, num_classes>>
        /\ UNCHANGED <<batch_idx, sched_steps, test_seen, tests_done, epochs_trained,
                       ckpt_file, ckpt_writes>>
        /\ DklUnchangedElse)

\* line 326: scheduler.step()
DklSchedulerStep ==
    DklStatement("scheduler", DklReads["scheduler"],
        /\ sched_steps' = sched_steps + 1
        /\ pc' = "train_enter"
        /\ UNCHANGED <<err, modeVars, trainVars, defined, num_classes>>
        /\ UNCHANGED <<epoch, batch_idx, test_seen, tests_done, epochs_trained,
                       ckpt_file, ckpt_writes>>
        /\ DklUnchangedElse)

DklModeFrame == /\ UNCHANGED <<err, trainVars, defined, num_classes, DklCounters>>
                /\ DklUnchangedElse

\* lines 328-329 and 267: the settings block is entered, train(epoch) is
\* called; model.train()
DklTrainEnter ==
    DklStatement("train_enter", DklReads["train_enter"],
        /\ SetH(model_train(H))
        /\ pc' = "likelihood_train"
        /\ DklModeFrame)

\* line 268: likelihood.train()
DklLikelihoodTrain ==
    DklStatement("likelihood_train", DklReads["likelihood_train"],
        /\ SetH(likelihood_train(H))
        /\ pc' = "train_setup"
        /\ DklModeFrame)

\* lines 269-271: mll, train_loss, pbar = tqdm(train_loader)
DklTrainSetup ==
    DklStatement("train_setup", DklReads["train_setup"],
        /\ batch_idx' = -1
        /\ pc' = "batch_next"
        /\ UNCHANGED <<err, modeVars, trainVars, defined, num_classes>>
        /\ UNCHANGED <<epoch, sched_steps, test_seen, tests_done, epochs_trained,
                       ckpt_file, ckpt_writes>>
        /\ DklUnchangedElse)

\* line 272: for batch_idx, (data, target) in enumerate(pbar)
DklBatchNext ==
    DklStatement("batch_next", DklReads["batch_next"],
        /\ IF BatchLoopHasNext(batch_idx + 1, n_batches)
             THEN /\ batch_idx' = batch_idx + 1 /\ iter_ops' = <<>> /\ pc' = "zero_grad"
                  /\ UNCHANGED epochs_trained
             ELSE /\ epochs_trained' = epochs_trained + 1 /\ pc' = "test_enter"
                  /\ UNCHANGED <<batch_idx, iter_ops>>
        /\ UNCHANGED <<err, modeVars, calls, output, loss, grad, defined, num_classes>>
        /\ UNCHANGED <<epoch, sched_steps, test_seen, tests_done, ckpt_file, ckpt_writes>>
        /\ DklUnchangedElse)

DklLoopFrame == /\ UNCHANGED <<err, objRest, defined, num_classes, DklCounters>>
                /\ DklUnchangedElse

\* line 274: optimizer.zero_grad()
DklZeroGrad ==
    DklStatement("zero_grad", DklReads["zero_grad"],
        /\ Stmt("zero_grad") /\ grad' = ZeroGrad(grad)
        /\ pc' = "forward"
        /\ UNCHANGED <<params, output, loss>> /\ DklLoopFrame)

\* line 275: output = model(data)
DklForward ==
    DklStatement("forward", DklReads["forward"],
        /\ Stmt("forward") /\ output' = params
        /\ pc' = "loss"
        /\ UNCHANGED <<params, loss, grad>> /\ DklLoopFrame)

\* line 276: loss = -1 * mll(output, target)
DklLoss ==
    DklStatement("loss", DklReads["loss"],
        /\ Stmt("loss") /\ loss' = output
        /\ pc' = "backward"
        /\ UNCHANGED <<params, output, grad>> /\ DklLoopFrame)

\* line 277: loss.backward()
DklBackward ==
    DklStatement("backward", DklReads["backward"],
        /\ Stmt("backward") /\ grad' = Backward(grad, loss)
        /\ pc' = "report"
        /\ UNCHANGED <<params, output, loss>> /\ DklLoopFrame)

\* lines 278-279: if (batch_idx+1) % 50 == 0: print(...)
DklReport ==
    DklStatement("report", IF ReportDue(batch_idx) THEN DklReads["report"] ELSE <<>>,
        /\ IF ReportDue(batch_idx) THEN Stmt("print") ELSE UNCHANGED <<calls, iter_ops>>
        /\ pc' = "step"
        /\ UNCHANGED <<params, output, loss, grad>> /\ DklLoopFrame)

\* line 280: optimizer.step()
DklOptStep ==
    DklStatement("step", DklReads["step"],
        /\ Stmt("step") /\ params' = params + 1
        /\ pc' = "batch_next"
        /\ UNCHANGED <<output, loss, grad>> /\ DklLoopFrame)

\* lines 330 and 297: test() is called; model.eval()
DklTestEnter ==
    DklStatement("test_enter", DklReads["test_enter"],
        /\ SetH(model_eval(H))
        /\ pc' = "likelihood_eval"
        /\ DklModeFrame)

\* line 298: likelihood.eval()
DklLikelihoodEval ==
    DklStatement("likelihood_eval", DklReads["likelihood_eval"],
        /\ SetH(likelihood_eval(H))
        /\ pc' = "test_setup"
        /\ DklModeFrame)

\* lines 299-301: test_loss = 0; correct = 0; pbar = tqdm(test_loader)
DklTestSetup ==
    DklStatement("test_setup", DklReads["test_setup"],
        /\ test_seen' = 0
        /\ pc' = "test_batch"
        /\ UNCHANGED <<err, modeVars, trainVars, defined, num_classes>>
        /\ UNCHANGED <<epoch, batch_idx, sched_steps, tests_done, epochs_trained,
                       ckpt_file, ckpt_writes>>
        /\ DklUnchangedElse)

\* lines 302-307: one test batch: output = likelihood(model(data)); correct += ...
DklTestBatch ==
    /\ test_seen < n_test_batches
    /\ DklStatement("test_batch", DklReads["test_batch"],
        /\ test_seen' = test_seen + 1
        /\ UNCHANGED <<pc, err, modeVars, trainVars, defined, num_classes>>
        /\ UNCHANGED <<epoch, batch_idx, sched_steps, tests_done, epochs_trained,
                       ckpt_file, ckpt_writes>>
        /\ DklUnchangedElse)

\* a call into the library raises (out of memory, a numerical error, a failed
\* read of a batch); the statement has read the names that come before the
\* call.  The notebook has no try statement.
DklLibraryRaises ==
    /\ nb = "dkl" /\ pc \in DOMAIN LibraryCalls
    /\ (pc = "report") => ReportDue(batch_idx)
    /\ FirstUnbound(SubSeq(DklReads[pc], 1, ReadsBeforeCall[pc]), defined) = ""
    /\ DklRaises(LibraryError(LibraryCalls[pc]))

\* lines 308-309, then lines 332-341.  test() ends with
\* test_loss /= len(test_loader.dataset), a division of the integer 0 that
\* raises ZeroDivisionError for an empty test set, and with the summary line,
\* which reads len(tes_loader.dataset).  When test() returns, the checkpoint
\* step binds stat_dict and likelihood_state_dict, builds the dict from
\* `state_dict` and likelihood_state_dict and calls torch.save.
DklTestEndAndSave ==
    /\ nb = "dkl" /\ pc = "test_batch" /\ test_seen = n_test_batches
    /\ IF ~Bound("test_loader", defined)
         THEN DklRaises(NameError("test_loader"))
         ELSE IF n_test_batches = 0
         THEN DklRaises("ZeroDivisionError: division by zero")
         ELSE IF ~Bound("tes_loader", defined)
         THEN DklRaises(NameError("tes_loader"))
         ELSE /\ tests_done' = tests_done + 1
              /\ \E fails \in Fallible(CheckpointStatements) :
                   LET r == RunFallible(CheckpointStatements, defined, fails)
                   IN /\ defined' = r.names
                      /\ IF r.raises = "none"
                           THEN /\ ckpt_file' = Checkpoint(StateDictGlobal, params)
                                /\ ckpt_writes' = ckpt_writes + 1
                                /\ pc' = "epoch_next" /\ UNCHANGED err
                           ELSE /\ Raise(r.raises)
                                /\ UNCHANGED ckpt_writes
                                \* torch.save opens the file for writing: when
                                \* it fails the old file can be left as it was
                                \* or truncated
                                /\ IF r.failed = "torch.save"
                                     THEN \/ UNCHANGED ckpt_file
                                          \/ ckpt_file' = CorruptCheckpoint
                                     ELSE UNCHANGED ckpt_file
              /\ UNCHANGED <<modeVars, trainVars, num_classes>>
              /\ UNCHANGED <<epoch, batch_idx, sched_steps, test_seen, epochs_trained>>
              /\ DklUnchangedElse

NextDkl ==
    \/ DklImportsCell \/ DklTransformsCell \/ DklDatasetCell
    \/ DklSelectCell
    \/ DklDenseNetCell \/ DklFeatureExtractorCell \/ DklGaussianProcessLayerCell
    \/ DklDKLModelCell \/ DklModelCell
    \/ DklOptimizerCell \/ DklDefTrainCell \/ DklDefTestCell
    \/ DklEpochNext \/ DklSchedulerStep
    \/ DklTrainEnter \/ DklLikelihoodTrain \/ DklTrainSetup \/ DklBatchNext
    \/ DklZeroGrad \/ DklForward \/ DklLoss \/ DklBackward \/ DklReport \/ DklOptStep
    \/ DklTestEnter \/ DklLikelihoodEval \/ DklTestSetup \/ DklTestBatch
    \/ DklTestEndAndSave
    \/ DklLibraryRaises

-----------------------------------------------------------------------------
(* A run is one of the two notebooks.                                      *)
Init == InitLove \/ InitDkl
Next == NextLove \/ NextDkl
Spec == Init /\ [][Next]_vars

-----------------------------------------------------------------------------
(* Claims about the data cells, checked under SpecData.                    *)

Range(s) == {s[k] : k \in 1..Len(s)}
MinusOne == Frac(-1, 1)
PlusOne == Frac(1, 1)
FeatureCols == 1..Len(FeatureVals)

\* C3: for a dataset of L >= 0 rows the split puts the first
\* train_n = floor(0.4 * L) rows in the train partition and the rest in the
\* test partition: the sizes add up to L, no row index is in both, every row
\* index is in one, and features and targets use the same row indices.
C3_SplitPartitions ==
    (nb = "data" /\ pc = "prepared") =>
        LET L == Len(data) IN
        /\ 5 * train_n <= 2 * L /\ 2 * L < 5 * (train_n + 1)
        /\ Len(train_x) = train_n
        /\ Len(train_x) + Len(test_x) = L
        /\ Len(train_y) + Len(test_y) = L
        /\ \A k \in 1..Len(rows.train_x) : rows.train_x[k] = k - 1
        /\ \A k \in 1..Len(rows.test_x) : rows.test_x[k] = train_n + k - 1
        /\ Range(rows.train_x) \cap Range(rows.test_x) = {}
        /\ Range(rows.train_x) \cup Range(rows.test_x) = 0..(L - 1)
        /\ rows.train_x = rows.train_y
        /\ rows.test_x = rows.test_y
        /\ \A k \in 1..Len(train_x) : train_x[k] = X[k] /\ train_y[k] = data[k][3]
        /\ \A k \in 1..Len(test_x) :
              test_x[k] = X[train_n + k] /\ test_y[k] = data[train_n + k][3]

\* a five-row dataset has been split two to three
C3_Witness ==
    /\ nb = "data" /\ pc = "prepared"
    /\ Len(data) = 5 /\ Len(train_x) = 2 /\ Len(test_x) = 3
    /\ test_y = <<103, 104, 105>>

\* The features have been normalised (the cell has run on at least one row).
Normalized == nb = "data" /\ pc \in {"split", "prepared"} /\ Len(data) > 0

ColumnSpansUnitRange(j) ==
    /\ \E r \in 1..Len(X) : FracEq(X[r][j], MinusOne)
    /\ \E r \in 1..Len(X) : FracEq(X[r][j], PlusOne)
    /\ \A r \in 1..Len(X) : FracLeq(MinusOne, X[r][j]) /\ FracLeq(X[r][j], PlusOne)

TargetLeftUnscaled ==
    /\ Len(X) = Len(data) /\ Len(y) = Len(data)
    /\ \A r \in 1..Len(data) : Len(X[r]) = Len(data[r]) - 1 /\ y[r] = data[r][Len(data[r])]

\* C4: after normalisation every feature column has minimum -1 and
\* maximum 1 and all its values in [-1, 1]; the target column is left out of
\* the features and unscaled.  (Lines 100-101 divide every column by its
\* maximum after the shift, which is 0 for a column whose values are all
\* equal.)
C4_Original ==
    Normalized => /\ \A j \in FeatureCols : ColumnSpansUnitRange(j)
                  /\ TargetLeftUnscaled

-----------------------------------------------------------------------------
(* Claims about the training loops, checked under Spec.                    *)

IsPrefix(sq, tq) == Len(sq) <= Len(tq) /\ \A k \in 1..Len(sq) : sq[k] = tq[k]
LoveLoopBody == {"zero_grad", "forward", "loss", "backward", "print", "step"}
LoveBeforeTrain == {"setup", "call_train"}

\* C1: one call train(n) of the LOVE notebook recomputes the loss in every
\* iteration and makes exactly n optimizer steps (and n zero_grad, n forward,
\* n loss and n backward calls) before it returns, for every n >= 0.
C1_TrainStepsExactlyN ==
    nb = "love" =>
        /\ iters <= n
        /\ pc \in LoveLoopBody => calls["step"] = iters - 1
        /\ pc = "loop" => calls["step"] = iters
        /\ pc = "step" => calls["loss"] = iters /\ loss = params
        /\ pc \notin LoveLoopBody \cup LoveBeforeTrain \cup {"loop"} =>
              /\ iters = n /\ params = n
              /\ calls["step"] = n /\ calls["zero_grad"] = n /\ calls["forward"] = n
              /\ calls["loss"] = n /\ calls["backward"] = n /\ calls["print"] = n

\* train(3) has returned after three optimizer steps
C1_Witness ==
    /\ nb = "love" /\ pc = "trained" /\ n = 3
    /\ calls["step"] = 3 /\ calls["loss"] = 3 /\ params = 3

FullOrder == <<"zero_grad", "forward", "loss", "backward", "print", "step">>
QuietOrder == <<"zero_grad", "forward", "loss", "backward", "step">>
InTrainingRun == nb \in {"love", "dkl"}
IterationComplete == Len(iter_ops) > 0 /\ Last(iter_ops) = "step"

\* what a step may rely on: the gradients were cleared before this
\* iteration's forward pass and hold this iteration's loss alone
StepSeesFreshGradient ==
    pc = "step" => output = params /\ loss = params /\ grad = <<params>>

\* C2 as stated: in both loops every iteration runs zero_grad, forward, loss,
\* backward, report of the loss, optimizer step, in this order.
C2_Original ==
    InTrainingRun =>
        /\ IsPrefix(iter_ops, FullOrder)
        /\ IterationComplete => iter_ops = FullOrder
        /\ StepSeesFreshGradient

\* C2 (amended): in both loops every iteration runs zero_grad, forward, loss,
\* backward, optimizer step in this order, the step after the backward pass of
\* the same iteration and the gradients cleared before the forward pass; the
\* LOVE loop reports the loss between backward and step in every iteration,
\* the DKL loop only in the iterations with (batch_idx+1) % 50 = 0.
ExpectedOrder ==
    IF nb = "dkl" /\ ~ReportDue(batch_idx) THEN QuietOrder ELSE FullOrder
C2_IterationOrder ==
    InTrainingRun =>
        /\ IsPrefix(iter_ops, ExpectedOrder)
        /\ IterationComplete => iter_ops = ExpectedOrder
        /\ StepSeesFreshGradient

\* the DKL loop has finished its 50th batch, the first it reports, after 49
\* batches without a report
C2_Witness ==
    /\ nb = "dkl" /\ batch_idx = 49 /\ pc = "batch_next"
    /\ iter_ops = FullOrder /\ calls["print"] = 1 /\ calls["step"] = 50

-----------------------------------------------------------------------------
(* Claims about the predictive cache (LOVE notebook), checked under Spec.  *)

Events == 1..Len(history)
IsPrediction(k) == history[k].op = "predict" /\ history[k].result.kind \in {"exact", "love"}
IsLove(k) == IsPrediction(k) /\ history[k].fast
TrainBetween(j, k) == \E m \in (j + 1)..(k - 1) : history[m].op = "model.train"
CellsRunPast(pcs) == nb = "love" /\ script = "cells" /\ pc \in pcs

\* C5: an approximate prediction reuses a cache only if the model was not put
\* in training mode since that cache was built; in the notebook's cell order
\* the third measurement follows the second with no train()/cleanup() between
\* them and uses the cache the second built.
C5_CacheReusedOnlyInEval ==
    /\ \A k \in Events :
          (IsLove(k) /\ ~history[k].covar_built) =>
              \E j \in 1..(k - 1) :
                  /\ IsLove(j) /\ history[j].covar_built
                  /\ ~TrainBetween(j, k)
                  /\ history[j].result = history[k].result
    /\ \A k \in Events :
          (IsLove(k) /\ ~history[k].mean_built) =>
              \E j \in 1..(k - 1) :
                  IsPrediction(j) /\ history[j].mean_built /\ ~TrainBetween(j, k)
    /\ CellsRunPast({"mae", "done"}) =>
          LET k == Len(history) IN
          /\ IsLove(k) /\ ~history[k].covar_built /\ ~history[k].mean_built
          /\ IsLove(k - 1) /\ history[k - 1].covar_built
          /\ model_mode = "eval"

\* a run in any order that built the LOVE cache, reused it, and then put the
\* model back in training mode, dropping the cache
C5_Witness ==
    /\ nb = "love" /\ script = "free"
    /\ \E j, k \in Events :
          /\ j < k /\ IsLove(j) /\ history[j].covar_built
          /\ IsLove(k) /\ ~history[k].covar_built
          /\ \E m \in (k + 1)..Len(history) : history[m].op = "model.train"
    /\ cache = NoCache

\* C6: a switch to training mode and back forces the caches to be computed
\* anew; in the notebook, cleanup() after the exact prediction puts model and
\* likelihood in training mode and the first LOVE prediction reuses nothing
\* the exact prediction left.
C6_TrainModeInvalidates ==
    /\ \A k \in Events :
          (/\ IsPrediction(k)
           /\ \E m \in 1..(k - 1) :
                 /\ history[m].op = "model.train"
                 /\ \A j \in (m + 1)..(k - 1) : ~IsPrediction(j))
          => (history[k].mean_built /\ (history[k].fast => history[k].covar_built))
    /\ CellsRunPast({"love"}) =>
          /\ model_mode = "train" /\ lik_mode = "train" /\ cache = NoCache
          /\ \E k \in Events : IsPrediction(k) /\ ~history[k].fast /\ history[k].mean_built
    /\ CellsRunPast({"love_cached", "mae", "done"}) =>
          \E k \in Events :
              /\ IsLove(k) /\ history[k].mean_built /\ history[k].covar_built
              /\ \A j \in 1..(k - 1) : ~IsLove(j)

\* the notebook after its first LOVE prediction: the exact prediction built a
\* mean cache, cleanup() and eval() followed, and the LOVE prediction built
\* both caches
C6_Witness ==
    /\ CellsRunPast({"love_cached"})
    /\ \E i1, i2, i3 \in Events :
          /\ i1 < i2 /\ i2 < i3
          /\ IsPrediction(i1) /\ ~history[i1].fast /\ history[i1].mean_built
          /\ history[i2].op = "model.train"
          /\ IsLove(i3) /\ history[i3].mean_built /\ history[i3].covar_built
    /\ cache.covar_built /\ cache.covar_size = RootDecompositionSize

\* C7: two consecutive approximate predictions on an unchanged model kept in
\* evaluation mode return the same result: fast_covar_cache equals fast_covar.
C7_ApproxIdempotent ==
    /\ \A j, k \in Events :
          (j < k /\ IsLove(j) /\ IsLove(k) /\ ~TrainBetween(j, k))
              => history[j].result = history[k].result
    /\ CellsRunPast({"mae", "done"}) =>
          /\ fast_covar_cache = fast_covar
          /\ fast_covar.kind = "love" /\ fast_covar.size = RootDecompositionSize
          /\ fast_covar.params = params

\* the notebook after the cached measurement, both results present and equal
C7_Witness ==
    /\ CellsRunPast({"mae"})
    /\ fast_covar.kind = "love" /\ fast_covar_cache.kind = "love"
    /\ fast_covar_cache = fast_covar /\ params = n /\ n > 0

-----------------------------------------------------------------------------
(* Claims about the DKL notebook, checked under Spec.                      *)

DklRunOver == nb = "dkl" /\ pc \in {"done", "raised"}
DatasetAllowed == dataset \in {"cifar10", "cifar100"}
\* the run was ended by an exception of the library, not of the notebook's code
LibraryFailed == err \in LibraryErrors

\* C8 as stated: after each training epoch the parameters of model and
\* likelihood are saved to the checkpoint file as the groups 'model' and
\* 'likelihood', once per epoch, so the file holds the parameters left by
\* the last optimizer step of the last finished epoch.
C8_CheckpointEachEpoch ==
    (nb = "dkl" /\ pc \in {"epoch_next", "done", "raised"} /\ epochs_trained >= 1
        /\ ~LibraryFailed) =>
        /\ ckpt_writes = epochs_trained
        /\ ckpt_file = Checkpoint(params, params)

\* the selection cell has run: the cell before it has bound `dataset` and the
\* run is past the cell or was ended by it or by a later cell
SelectionRan == nb = "dkl" /\ NamesBeforeSelect \subseteq defined /\ pc # "select"
SelectionMessage == "RuntimeError: dataset must be either \"cifar10\" or \"cifar100\""

\* C9 as stated: the selection cell builds the loaders with num_classes = 10
\* for 'cifar10' and num_classes = 100 for 'cifar100'; for every other value
\* it raises a RuntimeError with a message and binds neither loaders nor
\* num_classes.
C9_Original ==
    SelectionRan =>
        /\ dataset = "cifar10" =>
              /\ num_classes = 10 /\ LoaderNames \subseteq defined
              /\ err # SelectionMessage
        /\ dataset = "cifar100" =>
              /\ num_classes = 100 /\ LoaderNames \subseteq defined
              /\ err # SelectionMessage
        /\ ~DatasetAllowed =>
              /\ pc = "raised" /\ err = SelectionMessage
              /\ LoaderNames \cap defined = {}
              /\ num_classes = 0

\* the branch `stmts` ran to its end: loaders and num_classes = classes are bound
SelectionBuilt(stmts, classes) ==
    /\ num_classes = classes /\ LoaderNames \subseteq defined
    /\ err \notin CellErrors(stmts) /\ err # SelectionMessage
\* the library call of statement i of the branch raised: the run ended there,
\* with the names of the statements before it bound and no other of the cell
SelectionFailedAt(stmts, i) ==
    /\ stmts[i].call # ""
    /\ pc = "raised" /\ err = stmts[i].raises
    /\ LoaderNames \cap defined = BoundBy(SubSeq(stmts, 1, i - 1))
    /\ num_classes = 0
SelectionOutcome(stmts, classes) ==
    \/ SelectionBuilt(stmts, classes)
    \/ \E i \in DOMAIN stmts : SelectionFailedAt(stmts, i)

\* C9: for 'cifar10' (for 'cifar100') the selection cell builds the loaders
\* with num_classes = 10 (100) unless a call of the branch into torchvision
\* or torch raises (a failed download, say); then that exception ends the
\* run and the names the cell had not yet assigned, num_classes among them,
\* stay unbound.  For every other value the cell raises a RuntimeError with a
\* message and binds neither loaders nor num_classes.
C9_DatasetGuard ==
    SelectionRan =>
        /\ dataset = "cifar10" => SelectionOutcome(LoaderStatements("CIFAR10"), 10)
        /\ dataset = "cifar100" => SelectionOutcome(LoaderStatements("CIFAR100"), 100)
        /\ ~DatasetAllowed =>
              /\ pc = "raised" /\ err = SelectionMessage
              /\ LoaderNames \cap defined = {}
              /\ num_classes = 0

\* the download of the cifar10 train set failed: d_func is bound, no set, no
\* loader, no num_classes
C9_Witness ==
    /\ SelectionRan /\ dataset = "cifar10" /\ pc = "raised"
    /\ err = LibraryError("datasets.CIFAR10(train=True, download=True)")
    /\ LoaderNames \cap defined = {"d_func"} /\ num_classes = 0

\* C10 as stated: the epoch loop runs all n_epochs epochs, each with one
\* scheduler step, one train pass, one test pass and one checkpoint write.
C10_AllEpochsRun ==
    (DklRunOver /\ DatasetAllowed /\ ~LibraryFailed) =>
        /\ pc = "done" /\ epoch = n_epochs
        /\ sched_steps = n_epochs /\ epochs_trained = n_epochs
        /\ tests_done = n_epochs /\ ckpt_writes = n_epochs


-----------------------------------------------------------------------------
(* C11: the three timed measurements of the LOVE benchmark.                *)

\* number of timed measurements taken once the cells run has reached pc
MeasurementsAt(p) ==
    CASE p \in {"cleanup", "love"} -> 1
      [] p = "love_cached" -> 2
      [] p \in {"mae", "done"} -> 3
      [] OTHER -> 0

ExactMeasurement(m) ==
    /\ ~m.fast /\ m.size = DefaultSettings.max_root /\ m.result.kind = "exact"
ApproximateMeasurement(m) ==
    /\ m.fast /\ m.size = RootDecompositionSize /\ m.result.kind = "love"
    /\ m.result.size = RootDecompositionSize

\* C11: between the operations of the LOVE notebook fast_pred_var and the
\* root-decomposition size are at their defaults (no block leaves them on);
\* with the cells run in order the timed measurements are, in this order, an
\* exact one (fast_pred_var off), an approximate one and an approximate one
\* that builds no cache (both with fast_pred_var on and size 25), never more
\* than three; and mae compares the exact covariance with the covariance of
\* the first approximate measurement.
C11_ThreeScopedMeasurements ==
    (nb = "love") =>
        /\ settings = DefaultSettings
        /\ (script = "cells") =>
             /\ Len(timed) = MeasurementsAt(pc)
             /\ Len(timed) >= 1 => ExactMeasurement(timed[1])
             /\ Len(timed) >= 2 => ApproximateMeasurement(timed[2])
             /\ Len(timed) >= 3 => /\ ApproximateMeasurement(timed[3])
                                   /\ ~Last(history).covar_built
             /\ (pc = "done") => mae = <<timed[1].result, timed[2].result>>

C11_Witness ==
    /\ nb = "love" /\ script = "cells" /\ pc = "done" /\ n > 0
    /\ Len(timed) = 3 /\ timed[1].result.kind = "exact"
    /\ timed[2].fast /\ timed[3].fast /\ ~timed[1].fast
    /\ mae[1] = exact_covar /\ mae[2] = fast_covar /\ mae[2].kind = "love"
    /\ settings = DefaultSettings


-----------------------------------------------------------------------------
(* C12: who writes the parameters.                                         *)

\* the statement about to run is optimizer.step() (line 199, or line 280 of DKL)
AtOptimizerStep == pc = "step"

ParamsWrittenOnlyByStep ==
    (params' # params) => (AtOptimizerStep /\ params' = params + 1)

\* the parameters train(n) left: one step per iteration, from the initial ones
MeasuredOnTrainedParams ==
    (nb = "love" /\ script = "cells" /\ pc \notin {"setup", "call_train"}) =>
        /\ params = calls["step"]
        /\ \A k \in 1..Len(timed) : timed[k].result.params = params
        /\ (pc \in {"exact", "cleanup", "love", "love_cached", "mae", "done"}) => params = n

\* C12: a step of either notebook that changes the parameters is an
\* optimizer.step(), and it changes them once; mode switches, cleanup(), the
\* predictions, the DKL test pass and the checkpoint step leave them as they
\* were, so each of the three benchmark measurements is computed from the
\* parameters the n steps of train(n) left.
C12_OnlyStepMutatesParams ==
    /\ [][ParamsWrittenOnlyByStep]_vars
    /\ []MeasuredOnTrainedParams

C12_Witness ==
    /\ nb = "love" /\ script = "cells" /\ pc = "done" /\ n = MaxIters
    /\ params = n /\ Len(timed) = 3
    /\ exact_covar.params = n /\ fast_covar.params = n /\ fast_covar_cache.params = n
    /\ \E k \in 1..Len(history) : history[k].op = "model.train" /\ k > 1


-----------------------------------------------------------------------------
(* C13: an exception ends the run.                                         *)

\* the step of epoch `epoch` the exception came from
FailedIn(call) ==
    CASE call = "scheduler.step" -> err = LibraryError("scheduler.step")
      [] call = "train" -> err = LibraryError("train")
      [] call = "test" -> err \in {LibraryError("test"), NameError("tes_loader"),
                                   "ZeroDivisionError: division by zero"}
      [] call = "checkpoint" -> err \in {LibraryError("checkpoint"), NameError("state_dict")}

\* where a run of the epoch loop stops when `call` raises in epoch `epoch`:
\* the steps before it have run `epoch` times, it and the steps after it
\* `epoch - 1` times
StoppedAt ==
    (nb = "dkl" /\ pc = "raised" /\ epoch >= 1) =>
        /\ \E call \in {"scheduler.step", "train", "test", "checkpoint"} : FailedIn(call)
        /\ sched_steps = (IF FailedIn("scheduler.step") THEN epoch - 1 ELSE epoch)
        /\ epochs_trained =
              (IF FailedIn("scheduler.step") \/ FailedIn("train") THEN epoch - 1 ELSE epoch)
        /\ tests_done = (IF FailedIn("checkpoint") THEN epoch ELSE epoch - 1)
        /\ ckpt_writes = epoch - 1

\* C13: a run of the DKL notebook that has raised stays where it raised: no
\* step follows a state with an exception, an exception is pending exactly in
\* the state "raised", and when scheduler.step(), train, test or the
\* checkpoint step raised in epoch e, the steps after the failed one have not
\* run for epoch e (no checkpoint of epoch e), the failed one has not run to
\* its end, and epoch e + 1 is not started.
C13_FailureEndsRun ==
    /\ [][err = "none" /\ pc # "raised"]_vars
    /\ [](nb = "dkl" => ((err # "none") <=> (pc = "raised")))
    /\ []StoppedAt

C13_Witness ==
    /\ nb = "dkl" /\ pc = "raised" /\ FailedIn("train")
    /\ epoch = 1 /\ sched_steps = 1 /\ batch_idx >= 1 /\ params >= 1
    /\ epochs_trained = 0 /\ tests_done = 0 /\ ckpt_writes = 0


-----------------------------------------------------------------------------
(* C14: the modes of model and likelihood.                                 *)

Modes == {"train", "eval"}

\* between the two calls of a pair: model.train() or model.eval() has run and
\* the call for the likelihood is the next statement
MidPair == nb = "dkl" /\ pc \in {"likelihood_train", "likelihood_eval"}

\* the second call of a pair brings the likelihood to the mode of the model
PairCompleted ==
    (MidPair /\ err' = "none") => (model_mode' = model_mode /\ lik_mode' = model_mode')
\* every other step that switches a mode and returns leaves both modes equal
ModesSwitchTogether ==
    (~MidPair /\ err' = "none" /\ <<model_mode, lik_mode>>' # <<model_mode, lik_mode>>) =>
        (model_mode' = lik_mode' \/ MidPair')

\* C14: in both notebooks, whenever a cell or a call of train, test or
\* cleanup has finished, the model and the likelihood are in the same mode,
\* both "train" or both "eval": a mode switch of the model is followed at once
\* by the same switch of the likelihood, and nothing else changes a mode.
C14_ModesInLockstep ==
    /\ []((nb \in {"love", "dkl"} /\ err = "none" /\ ~MidPair) =>
             (model_mode \in Modes /\ lik_mode = model_mode))
    /\ [][PairCompleted /\ ModesSwitchTogether]_vars

\* cleanup() has put both back in training mode after the exact prediction
\* cell had put both in evaluation mode
C14_Witness ==
    /\ nb = "love" /\ script = "cells" /\ pc = "love"
    /\ exact_covar.kind = "exact" /\ timed[1].model_mode = "eval" /\ timed[1].lik_mode = "eval"
    /\ model_mode = "train" /\ lik_mode = "train"


-----------------------------------------------------------------------------
(* C15: the mode each operation runs in.                                   *)

BothIn(mode) == model_mode = mode /\ lik_mode = mode

ModeEvents == {"model.train", "model.eval"}
\* the last mode switch before event k of the history was model.eval()
EvalBefore(k) ==
    \E j \in 1..(k - 1) :
        /\ history[j].op = "model.eval"
        /\ \A i \in (j + 1)..(k - 1) : history[i].op \notin ModeEvents

\* The part of C15 about the modes: with the cells run in order every timed
\* prediction of the LOVE notebook was computed with model and likelihood in
\* evaluation mode and is a posterior prediction, with model.eval() the last
\* mode switch before it; a DKL test batch is computed in evaluation mode; and
\* optimizer.step() of either notebook runs in training mode.
PredictInEvalStepInTrain ==
    /\ (nb = "love" /\ script = "cells") =>
          /\ \A k \in 1..Len(timed) :
                /\ timed[k].model_mode = "eval" /\ timed[k].lik_mode = "eval"
                /\ timed[k].result.kind # "prior"
          /\ \A k \in 1..Len(history) : (history[k].op = "predict") => EvalBefore(k)
    /\ (nb = "dkl" /\ pc = "test_batch") => BothIn("eval")
    /\ (nb \in {"love", "dkl"} /\ pc = "step") => BothIn("train")

\* the epoch loop has finished the training pass of at least one epoch and is
\* between epochs or over, and no library call failed
EpochsBehind ==
    /\ nb = "dkl" /\ pc \in {"epoch_next", "done", "raised"}
    /\ epochs_trained >= 1 /\ ~LibraryFailed

\* C15 as stated: predictions run in evaluation mode and optimizer steps in
\* training mode, and in the DKL loop the checkpoint of each epoch is taken
\* after that epoch's test(), with the model in evaluation mode.
C15_ModesAtEachOperation ==
    /\ PredictInEvalStepInTrain
    /\ EpochsBehind =>
          /\ tests_done = epochs_trained
          /\ ckpt_writes = tests_done
          /\ BothIn("eval")

=============================================================================
